---- MODULE Spec2Model ----
(***************************************************************************)
(* Session scheduling engine of the trainer app: the calendar component    *)
(* (src/components/Calendar.tsx), the calendar screen that backs it with   *)
(* AsyncStorage and the date library (src/unnamed/part_000).               *)
(*                                                                         *)
(* Instants are minutes since 2024-01-01T00:00Z.  A JavaScript Date is an  *)
(* instant; its local fields are read through the host offset tz (minutes  *)
(* east of UTC).  A date key "YYYY-MM-DD" is the triple <<y, m, d>>, an    *)
(* ISO string is the record of its UTC fields, a month key "y-m" is the    *)
(* pair <<y, m>> (m is not normalised: the code builds it from month - 1   *)
(* and month + 1).                                                         *)
(***************************************************************************)
EXTENDS Integers, Sequences, FiniteSets, TLC

VARIABLES
    tz,              \* host UTC offset in minutes (fixed for one run)
    store,           \* AsyncStorage[SESSIONS_KEY]: the persisted sessions
    screenSessions,  \* CalendarScreen state `sessions` (in-memory snapshot)
    initialLoad,     \* the screen's initial getItem: "pending" or "done"
    nextId,          \* stands for the fresh ids of handleCreateSession
    visibleMonth,    \* Calendar state visibleMonth: [year, month]
    selectedDate,    \* Calendar state selectedDate (a date key)
    sessionsByDate,  \* Calendar state sessionsByDate: date key -> sessions
    cachedMonths,    \* Calendar ref cachedMonths: set of month keys
    isLoading,       \* Calendar state isLoading
    error,           \* Calendar state error (FALSE stands for null)
    rejectedReads,   \* history: the loadSessions calls that rejected, each
                     \* with its month key and the effect runs seen so far
    fetches,         \* loadSessions calls in flight
    navCount,        \* number of runs of the month-change effect
    dialog,          \* the Alert on screen, with the closure it captured
    createPc,        \* createSessions suspended at its await, or "idle"
    writes,          \* number of repository calls made (create/edit/delete)
    createLog,       \* history: every call of onCreateSession
    fx               \* scratch state of the pure-function specifications

vars == <<tz, rejectedReads, store, screenSessions, initialLoad, nextId, visibleMonth,
          selectedDate, sessionsByDate, cachedMonths, isLoading, error,
          fetches, navCount, dialog, createPc, writes, createLog, fx>>

-----------------------------------------------------------------------------
(* Bounds of the model *)

MaxNav == 1        \* month changes explored
MaxWrites == 1     \* repository write calls explored
MaxBucket == 2     \* sessions of a list drawn as a function's input
MaxReadFailures == 1  \* loadSessions calls that reject

-----------------------------------------------------------------------------
(* Program constants *)

WeekDays == 7      \* getWeeklyRepeatDates: i * 7; getMonthRange: weeks * 7
PaddingWeeks == 2  \* fetchMonth: withPadding ? 2 : 0

-----------------------------------------------------------------------------
(* The JavaScript Date arithmetic the code relies on *)

MinutesPerDay == 24 * 60

IsLeap(y) == (y % 4 = 0 /\ y % 100 # 0) \/ y % 400 = 0

DaysInMonth(y, m) ==
    IF m = 2 THEN (IF IsLeap(y) THEN 29 ELSE 28)
    ELSE IF m \in {4, 6, 9, 11} THEN 30 ELSE 31

LeapsBefore(y) == ((y - 1) \div 4) - ((y - 1) \div 100) + ((y - 1) \div 400)

\* days from 2024-01-01 to y-01-01
DaysBeforeYear(y) == 365 * (y - 2024) + LeapsBefore(y) - LeapsBefore(2024)

RECURSIVE DaysBeforeMonth(_, _)
DaysBeforeMonth(y, m) ==
    IF m <= 1 THEN 0 ELSE DaysBeforeMonth(y, m - 1) + DaysInMonth(y, m - 1)

\* Date(year, monthIndex + 1, day) as a day number: the constructor accepts
\* any month and day and normalises them (month 0 is December of the year
\* before, day 0 is the last day of the month before).
DaysFromCivil(y, m, d) ==
    LET ny == y + ((m - 1) \div 12)
        nm == ((m - 1) % 12) + 1
    IN DaysBeforeYear(ny) + DaysBeforeMonth(ny, nm) + (d - 1)

\* the calendar fields <<y, m, d>> of a day number
CivilFromDays(n) ==
    LET g == 2024 + (n \div 365)
        y == CHOOSE c \in (g - 1)..(g + 1) :
                 DaysBeforeYear(c) <= n /\ n < DaysBeforeYear(c + 1)
        doy == n - DaysBeforeYear(y)
        m == CHOOSE c \in 1..12 :
                 DaysBeforeMonth(y, c) <= doy
                 /\ doy < DaysBeforeMonth(y, c) + DaysInMonth(y, c)
    IN <<y, m, doy - DaysBeforeMonth(y, m) + 1>>

\* the local day number of an instant (getFullYear/getMonth/getDate read it)
LocalDay(t) == (t + tz) \div MinutesPerDay

\* new Date(year, monthIndex + 1, day): local midnight of that day
NewDateLocal(y, m, d) == DaysFromCivil(y, m, d) * MinutesPerDay - tz

\* new Date("YYYY-MM-DD"): a date-only string is read as UTC midnight
NewDateFromKey(k) == DaysFromCivil(k[1], k[2], k[3]) * MinutesPerDay

\* date.setHours(h, m, 0, 0), with the time of day given in minutes
SetHours(t, hm) == LocalDay(t) * MinutesPerDay + hm - tz

\* date.setDate(date.getDate() + n)
AddDays(t, n) == t + n * MinutesPerDay

\* date.getFullYear(), date.getMonth() + 1
GetFullYear(t) == CivilFromDays(LocalDay(t))[1]
GetMonth1(t) == CivilFromDays(LocalDay(t))[2]

-----------------------------------------------------------------------------
(* lib/date *)

\* toUTCISO: date.toISOString(), the UTC fields of the instant
toUTCISO(t) ==
    LET c == CivilFromDays(t \div MinutesPerDay)
    IN [y |-> c[1], m |-> c[2], d |-> c[3], min |-> t % MinutesPerDay]

\* toLocal: new Date(utcISO), the instant the UTC fields name
toLocal(iso) == DaysFromCivil(iso.y, iso.m, iso.d) * MinutesPerDay + iso.min

\* dateKey: the local calendar fields of the instant
dateKey(t) == CivilFromDays(LocalDay(t))

\* the current time, new Date(): noon UTC of 2024-01-28
Now == DaysFromCivil(2024, 1, 28) * MinutesPerDay + 12 * 60

\* isPast: date < new Date()
isPast(date) == date < Now

\* an overlap test that counts touching ranges
dateRangesTouch(start1, end1, start2, end2) ==
    start1 <= end2 /\ start2 <= end1

\* dateRangesOverlap
dateRangesOverlap(start1, end1, start2, end2) ==
    start1 < end2 /\ start2 < end1

\* a month range whose padding is counted in days instead of weeks
getMonthRangePaddedByDays(year, month, weeksPadding) ==
    LET startOfMonth == NewDateLocal(year, month, 1)
        endOfMonth == NewDateLocal(year, month + 1, 0)
    IN [startISO |-> toUTCISO(AddDays(startOfMonth, -weeksPadding)),
        endISO |-> toUTCISO(AddDays(endOfMonth, weeksPadding))]

\* getMonthRange(year, month, weeksPadding)
getMonthRange(year, month, weeksPadding) ==
    LET startOfMonth == NewDateLocal(year, month, 1)
        endOfMonth == NewDateLocal(year, month + 1, 0)
        paddingDays == weeksPadding * WeekDays
    IN [startISO |-> toUTCISO(AddDays(startOfMonth, -paddingDays)),
        endISO |-> toUTCISO(AddDays(endOfMonth, paddingDays))]

\* A Date with its seconds and milliseconds: an instant in milliseconds.
\* The local fields are read from the instant shifted by the host offset.
MsPerSecond == 1000
MsPerMinute == 60 * MsPerSecond
MsPerHour == 60 * MsPerMinute

LocalMs(ms) == ms + tz * MsPerMinute
GetMilliseconds(ms) == LocalMs(ms) % MsPerSecond
GetSeconds(ms) == (LocalMs(ms) \div MsPerSecond) % 60
GetMinutes(ms) == (LocalMs(ms) \div MsPerMinute) % 60
GetHours(ms) == (LocalMs(ms) \div MsPerHour) % 24

\* setMilliseconds, setSeconds, setMinutes, setHours with one argument: the
\* field is replaced, a value past its range carries into the next field
SetMillisecondsTo(ms, v) == ms + (v - GetMilliseconds(ms))
SetSecondsTo(ms, v) == ms + (v - GetSeconds(ms)) * MsPerSecond
SetMinutesTo(ms, v) == ms + (v - GetMinutes(ms)) * MsPerMinute
SetHoursTo(ms, v) == ms + (v - GetHours(ms)) * MsPerHour

\* a rounding that leaves the seconds and milliseconds in place
nearestHalfHourKeepingSeconds(date) ==
    LET minutes == GetMinutes(date)
    IN IF minutes < 15 THEN SetMinutesTo(date, 0)
       ELSE IF minutes < 45 THEN SetMinutesTo(date, 30)
       ELSE LET onHour == SetMinutesTo(date, 0)
            IN SetHoursTo(onHour, GetHours(onHour) + 1)

\* nearestHalfHour(date)
nearestHalfHour(date) ==
    LET minutes == GetMinutes(date)
        moved == IF minutes < 15 THEN SetMinutesTo(date, 0)
                 ELSE IF minutes < 45 THEN SetMinutesTo(date, 30)
                 ELSE LET onHour == SetMinutesTo(date, 0)
                      IN SetHoursTo(onHour, GetHours(onHour) + 1)
    IN SetMillisecondsTo(SetSecondsTo(moved, 0), 0)

\* getWeeklyRepeatDates(startDate, weeks)
getWeeklyRepeatDates(startDate, weeks) ==
    [i \in 1..weeks |-> AddDays(startDate, i * WeekDays)]

-----------------------------------------------------------------------------
(* Inputs explored *)

TzOffsets == {-300, 0, 330}

\* the days the user can have selected (initialDate, day presses, edits)
Days == {<<2024, 1, 25>>, <<2024, 1, 31>>}

InitialDates == {<<2024, 1, 25>>}

\* the form's start and end time of day, in minutes
TimePairs == {<<540, 600>>, <<600, 660>>, <<600, 540>>, <<600, 600>>}

ClientIds == {"", "c1"}

RepeatWeeks == {2}

\* the outcomes of a store write explored
WriteOutcomes == {TRUE, FALSE}

\* how the promise of the loadSessions prop settles
ReadOutcomes == {"resolved", "rejected"}

\* AsyncStorage.getItem inside the screen's loadSessions: TRUE when it
\* returns the stored value, FALSE when it throws
ReadsSucceed == {TRUE}
StorageOutcomes == {TRUE, FALSE}

NoFilters == [status |-> {}, clientId |-> ""]

-----------------------------------------------------------------------------
(* CalendarScreen: the repository over AsyncStorage *)

Range(seq) == {seq[i] : i \in DOMAIN seq}

\* loadSessions({startISO, endISO, filters}) reading `stored`; a storage
\* failure is caught and reported as an empty list
loadSessions(stored, startISO, endISO, filters, readOk) ==
    IF ~readOk THEN <<>>
    ELSE
      LET startDate == toLocal(startISO)
          endDate == toLocal(endISO)
          InRange(session) ==
              LET sessionStart == toLocal(session.startISO)
              IN sessionStart >= startDate /\ sessionStart <= endDate
          filtered == SelectSeq(stored, InRange)
          HasStatus(s) == s.status \in filters.status
          HasClient(s) == s.clientId = filters.clientId
      IN IF filters.status # {} THEN SelectSeq(filtered, HasStatus)
         ELSE IF filters.clientId # "" THEN SelectSeq(filtered, HasClient)
         ELSE filtered

\* handleCreateSession of the screen (the onCreateSession prop): the new
\* list is built from the `sessions` the callback closed over
onCreateSession(sessions, sessionData, firstId) ==
    sessions \o [i \in DOMAIN sessionData |->
                    [id |-> firstId + i - 1] @@ sessionData[i]]

\* handleEditSession of the screen (the onEditSession prop)
onEditSession(sessions, updatedSession) ==
    [i \in DOMAIN sessions |->
        IF sessions[i].id = updatedSession.id THEN updatedSession
        ELSE sessions[i]]

\* handleDeleteSession of the screen (the onDeleteSession prop)
onDeleteSession(sessions, sessionId) ==
    LET Other(s) == s.id # sessionId IN SelectSeq(sessions, Other)

-----------------------------------------------------------------------------
(* Calendar: the month cache *)

\* the reduce of fetchMonth: sessions grouped by their date field
Group(sessions) ==
    [k \in {sessions[i].date : i \in DOMAIN sessions} |->
        LET OnDay(s) == s.date = k IN SelectSeq(sessions, OnDay)]

\* a merge that appends the incoming group to the bucket
MergeAppending(prev, grouped) ==
    [k \in DOMAIN prev \cup DOMAIN grouped |->
        (IF k \in DOMAIN prev THEN prev[k] ELSE <<>>)
        \o (IF k \in DOMAIN grouped THEN grouped[k] ELSE <<>>)]

\* a merge that keeps only the incoming group
MergeReplacingAll(prev, grouped) == grouped

\* setSessionsByDate((prev) => ({ ...prev, ...grouped }))
Merge(prev, grouped) ==
    [k \in DOMAIN prev \cup DOMAIN grouped |->
        IF k \in DOMAIN grouped THEN grouped[k] ELSE prev[k]]

\* sessionsByDate[key] || []
Bucket(byDate, key) == IF key \in DOMAIN byDate THEN byDate[key] ELSE <<>>

\* a list left in the order it has
KeepOrder(sessions) == sessions

\* sessions.sort((a, b) => start(a) - start(b)): ascending by start instant,
\* sessions with equal starts keeping their order
RECURSIVE SortByStart(_)
SortByStart(sessions) ==
    IF sessions = <<>> THEN <<>>
    ELSE LET last == sessions[Len(sessions)]
             sorted == SortByStart(SubSeq(sessions, 1, Len(sessions) - 1))
             NotAfter(s) == toLocal(s.startISO) <= toLocal(last.startISO)
             After(s) == toLocal(s.startISO) > toLocal(last.startISO)
         IN SelectSeq(sorted, NotAfter) \o <<last>> \o SelectSeq(sorted, After)

\* the render that follows a change of selectedDate or sessionsByDate: the
\* selectedSessions memo sorts the selected day's bucket, and Array.sort
\* sorts the array held in sessionsByDate in place
Rendered(byDate, selected) ==
    IF selected \in DOMAIN byDate
    THEN [byDate EXCEPT ![selected] = SortByStart(@)]
    ELSE byDate

\* the month key of fetchMonth
MonthKey(year, month) == <<year, month>>

\* a fetchMonth without the cache check: it always calls loadSessions
fetchMonthAlways(cached, stored, year, month, withPadding, nav, readOk) ==
    LET range == getMonthRange(year, month,
                               IF withPadding THEN PaddingWeeks ELSE 0)
    IN {[nav |-> nav, key |-> MonthKey(year, month),
         startISO |-> range.startISO, endISO |-> range.endISO,
         readOk |-> readOk,
         result |-> loadSessions(stored, range.startISO, range.endISO,
                                 NoFilters, readOk)]}

\* fetchMonth up to its await: the loadSessions calls it issues (none on a
\* cache hit).  The storage read is queued at the call, so it sees the store
\* as it is at the call.
fetchMonth(cached, stored, year, month, withPadding, nav, readOk) ==
    IF MonthKey(year, month) \in cached THEN {}
    ELSE
      LET range == getMonthRange(year, month,
                                 IF withPadding THEN PaddingWeeks ELSE 0)
      IN {[nav |-> nav, key |-> MonthKey(year, month),
           startISO |-> range.startISO, endISO |-> range.endISO,
           readOk |-> readOk,
           result |-> loadSessions(stored, range.startISO, range.endISO,
                                   NoFilters, readOk)]}

\* an effect that pads the neighbours' ranges as well
MonthEffectAllPadded(vm, nav, readOk) ==
    fetchMonth(cachedMonths, store, vm.year, vm.month, TRUE, nav, readOk)
    \cup fetchMonth(cachedMonths, store, vm.year, vm.month - 1, TRUE, nav,
                    readOk)
    \cup fetchMonth(cachedMonths, store, vm.year, vm.month + 1, TRUE, nav,
                    readOk)

\* the month-change effect: the visible month padded, its neighbours not
MonthEffect(vm, nav, readOk) ==
    fetchMonth(cachedMonths, store, vm.year, vm.month, TRUE, nav, readOk)
    \cup fetchMonth(cachedMonths, store, vm.year, vm.month - 1, FALSE, nav,
                    readOk)
    \cup fetchMonth(cachedMonths, store, vm.year, vm.month + 1, FALSE, nav,
                    readOk)

-----------------------------------------------------------------------------
(* Calendar: conflict check and creation *)

NoId == -1    \* stands for an excludeId that is not given

\* a conflict check that stops at the first colliding session
checkConflictsFirstOnly(byDate, startDate, endDate, excludeId) ==
    LET sessions == Bucket(byDate, dateKey(startDate))
        Conflicting(session) ==
            /\ session.id # excludeId
            /\ dateRangesOverlap(startDate, endDate,
                                 toLocal(session.startISO),
                                 toLocal(session.endISO))
        found == SelectSeq(sessions, Conflicting)
    IN IF found = <<>> THEN <<>> ELSE <<Head(found)>>

\* checkConflicts(startDate, endDate, excludeId) over the sessionsByDate of
\* the render that built the callback
checkConflicts(byDate, startDate, endDate, excludeId) ==
    LET dateStr == dateKey(startDate)
        sessions == Bucket(byDate, dateStr)
        Conflicting(session) ==
            /\ session.id # excludeId
            /\ dateRangesOverlap(startDate, endDate,
                                 toLocal(session.startISO),
                                 toLocal(session.endISO))
    IN SelectSeq(sessions, Conflicting)

\* the values handleCreateSession computes from the form and closes over
Closure(form, date, sessions, byDate, visible) ==
    LET d == NewDateFromKey(date)
    IN [clientId |-> form.clientId,
        date |-> date,
        startTime |-> form.timePair[1],
        endTime |-> form.timePair[2],
        repeatWeekly |-> form.repeatWeekly,
        repeatWeeks |-> form.repeatWeeks,
        startDate |-> SetHours(d, form.timePair[1]),
        endDate |-> SetHours(d, form.timePair[2]),
        sessions |-> sessions,
        byDate |-> byDate,
        visible |-> visible]

\* the request a closure stands for: the form and the two dates built from it
Request(cl) ==
    [clientId |-> cl.clientId, date |-> cl.date,
     startTime |-> cl.startTime, endTime |-> cl.endTime,
     repeatWeekly |-> cl.repeatWeekly, repeatWeeks |-> cl.repeatWeeks,
     startDate |-> cl.startDate, endDate |-> cl.endDate]

\* baseSession of createSessions
BaseSession(cl) ==
    [clientId |-> cl.clientId,
     date |-> cl.date,
     startISO |-> toUTCISO(cl.startDate),
     endISO |-> toUTCISO(cl.endDate),
     status |-> "booked",
     recurring |-> FALSE]

\* the argument createSessions hands to onCreateSession
SessionsToCreate(cl) ==
    IF cl.repeatWeekly /\ cl.repeatWeeks > 0
    THEN LET repeatDates == getWeeklyRepeatDates(cl.startDate, cl.repeatWeeks)
         IN [i \in 1..cl.repeatWeeks |->
                LET date == repeatDates[i]
                    atStart == SetHours(date, cl.startTime)
                    atEnd == SetHours(atStart, cl.endTime)
                IN [BaseSession(cl) EXCEPT
                       !.date = dateKey(date),
                       !.startISO = toUTCISO(atStart),
                       !.endISO = toUTCISO(atEnd),
                       !.recurring = TRUE]]
    ELSE <<BaseSession(cl)>>

NoDialog == [kind |-> "none"]

Idle == [pc |-> "idle"]

UiFree == navCount >= 1 /\ dialog.kind = "none" /\ createPc.pc = "idle"

\* Alert.alert('Error', message) and return
ShowError(message) ==
    /\ dialog' = [kind |-> "error", message |-> message]
    /\ UNCHANGED <<tz, rejectedReads, store, screenSessions, initialLoad, nextId,
                   visibleMonth, selectedDate, sessionsByDate, cachedMonths,
                   isLoading, error, fetches, navCount, createPc, writes,
                   createLog, fx>>

\* a createSessions that clears the visible month's marker before it calls
\* onCreateSession, so that a failed write leaves the marker cleared
CallCreateInvalidatingFirst(cl, override, writeOk) ==
    LET data == SessionsToCreate(cl)
        updatedSessions == onCreateSession(cl.sessions, data, nextId)
    IN /\ screenSessions' = updatedSessions
       /\ store' = IF writeOk THEN updatedSessions ELSE store
       /\ nextId' = nextId + Len(data)
       /\ writes' = writes + 1
       /\ cachedMonths' = cachedMonths \ {MonthKey(cl.visible.year, cl.visible.month)}
       /\ createLog' = Append(createLog,
              [cl |-> Request(cl), bucket |-> Bucket(cl.byDate, cl.date),
               data |-> data, override |-> override, ok |-> writeOk])
       /\ createPc' = IF writeOk
                      THEN [pc |-> "written", visible |-> cl.visible]
                      ELSE Idle
       /\ dialog' = IF writeOk THEN NoDialog
                    ELSE [kind |-> "error",
                          message |-> "Failed to create session"]
       /\ UNCHANGED <<tz, rejectedReads, initialLoad, visibleMonth, selectedDate,
                      sessionsByDate, isLoading, error,
                      fetches, navCount, fx>>

\* createSessions up to the await of onCreateSession; the screen's handler
\* sets its state and then writes the store, which can fail
CallCreate(cl, override, writeOk) ==
    LET data == SessionsToCreate(cl)
        updatedSessions == onCreateSession(cl.sessions, data, nextId)
    IN /\ screenSessions' = updatedSessions
       /\ store' = IF writeOk THEN updatedSessions ELSE store
       /\ nextId' = nextId + Len(data)
       /\ writes' = writes + 1
       /\ createLog' = Append(createLog,
              [cl |-> Request(cl), bucket |-> Bucket(cl.byDate, cl.date),
               data |-> data, override |-> override, ok |-> writeOk])
       /\ createPc' = IF writeOk
                      THEN [pc |-> "written", visible |-> cl.visible]
                      ELSE Idle
       /\ dialog' = IF writeOk THEN NoDialog
                    ELSE [kind |-> "error",
                          message |-> "Failed to create session"]
       /\ UNCHANGED <<tz, rejectedReads, initialLoad, visibleMonth, selectedDate,
                      sessionsByDate, cachedMonths, isLoading, error,
                      fetches, navCount, fx>>

\* proceedWithCreate
proceedWithCreate(cl, writeOk) ==
    LET conflicts == checkConflicts(cl.byDate, cl.startDate, cl.endDate, NoId)
    IN IF Len(conflicts) > 0
       THEN /\ dialog' = [kind |-> "conflict", cl |-> cl,
                          conflicts |-> conflicts]
            /\ UNCHANGED <<tz, rejectedReads, store, screenSessions, initialLoad, nextId,
                           visibleMonth, selectedDate, sessionsByDate,
                           cachedMonths, isLoading, error, fetches, navCount,
                           createPc, writes, createLog, fx>>
       ELSE CallCreate(cl, FALSE, writeOk)

\* a validation that lets equal start and end through
EndBeforeStart(startDate, endDate) == startDate > endDate

\* the validation of the times: startDate >= endDate
EndNotAfterStart(startDate, endDate) == startDate >= endDate

\* handleAddSession, then the Save button of the create modal:
\* resetCreateForm has set createForm.date to the selected date, the user
\* has filled in the rest, and handleCreateSession runs
handleCreateSession(form, writeOk) ==
    LET cl == Closure(form, selectedDate, screenSessions, sessionsByDate,
                      visibleMonth)
    IN /\ UiFree
       /\ writes < MaxWrites
       /\ IF cl.clientId = ""
          THEN ShowError("Please select a client or add clients first")
          ELSE IF EndNotAfterStart(cl.startDate, cl.endDate)
          THEN ShowError("End time must be after start time")
          ELSE IF isPast(cl.startDate)
          THEN /\ dialog' = [kind |-> "past", cl |-> cl]
               /\ UNCHANGED <<tz, rejectedReads, store, screenSessions, initialLoad, nextId,
                              visibleMonth, selectedDate, sessionsByDate,
                              cachedMonths, isLoading, error, fetches,
                              navCount, createPc, writes, createLog, fx>>
          ELSE proceedWithCreate(cl, writeOk)

\* "Continue" of the past-date warning
PastContinue(writeOk) ==
    /\ dialog.kind = "past"
    /\ proceedWithCreate(dialog.cl, writeOk)

\* "Override" of the conflict alert
ConflictOverride(writeOk) ==
    /\ dialog.kind = "conflict"
    /\ CallCreate(dialog.cl, TRUE, writeOk)

\* "Cancel" of the warning, "Pick Different Time" and "View Conflict" of the
\* conflict alert: the alert closes and nothing else happens
DialogDismiss ==
    /\ dialog.kind # "none"
    /\ dialog' = NoDialog
    /\ UNCHANGED <<tz, rejectedReads, store, screenSessions, initialLoad, nextId,
                   visibleMonth, selectedDate, sessionsByDate, cachedMonths,
                   isLoading, error, fetches, navCount, createPc, writes,
                   createLog, fx>>

\* createSessions after the await: refresh the month that was visible when
\* the handler was built
CreateRefresh ==
    /\ createPc.pc = "written"
    /\ LET vm == createPc.visible
           cached == cachedMonths \ {MonthKey(vm.year, vm.month)}
       IN /\ cachedMonths' = cached
          /\ fetches' = fetches \cup
                fetchMonth(cached, store, vm.year, vm.month, TRUE, 0, TRUE)
    /\ createPc' = Idle
    /\ UNCHANGED <<tz, rejectedReads, store, screenSessions, initialLoad, nextId,
                   visibleMonth, selectedDate, sessionsByDate, isLoading,
                   error, navCount, dialog, writes, createLog, fx>>

-----------------------------------------------------------------------------
(* Calendar: navigation and fetch completion *)

\* the selectedSessions memo: the selected day's bucket, sorted by start
selectedSessions == SortByStart(Bucket(sessionsByDate, selectedDate))

\* the effect on [visibleMonth, fetchMonth]: setIsLoading(true), the three
\* fetchMonth calls, and setIsLoading(false) once all three have settled
RunEffect(vm, readOk) ==
    LET issued == MonthEffect(vm, navCount + 1, readOk)
    IN /\ fetches' = fetches \cup issued
       /\ isLoading' = (issued # {})
       /\ navCount' = navCount + 1

\* the first run of the effect, on mount
Mount(readOk) ==
    /\ navCount = 0
    /\ RunEffect(visibleMonth, readOk)
    /\ UNCHANGED <<tz, rejectedReads, store, screenSessions, initialLoad, nextId,
                   visibleMonth, selectedDate, sessionsByDate, cachedMonths,
                   error, dialog, createPc, writes, createLog, fx>>

\* the month the calendar widget reports for its previous/next arrow
Shifted(vm, by) ==
    LET c == CivilFromDays(DaysFromCivil(vm.year, vm.month + by, 1))
    IN [year |-> c[1], month |-> c[2]]

\* handleMonthChange, followed by the effect it triggers
handleMonthChange(by, readOk) ==
    /\ UiFree
    /\ navCount <= MaxNav
    /\ visibleMonth' = Shifted(visibleMonth, by)
    /\ RunEffect(visibleMonth', readOk)
    /\ UNCHANGED <<tz, rejectedReads, store, screenSessions, initialLoad, nextId,
                   selectedDate, sessionsByDate, cachedMonths, error, dialog,
                   createPc, writes, createLog, fx>>

\* handleDayPress, and the render it causes
handleDayPress(day) ==
    /\ UiFree
    /\ day # selectedDate
    /\ selectedDate' = day
    /\ sessionsByDate' = Rendered(sessionsByDate, day)
    /\ UNCHANGED <<tz, rejectedReads, store, screenSessions, initialLoad, nextId,
                   visibleMonth, cachedMonths, isLoading,
                   error, fetches, navCount, dialog, createPc, writes,
                   createLog, fx>>

\* a completion that marks the month fetched even when the read rejected
FetchCompleteAlwaysMarking(f, outcome) ==
    /\ f \in fetches
    /\ IF outcome = "resolved"
       THEN /\ sessionsByDate' = Rendered(Merge(sessionsByDate,
                                            Group(f.result)), selectedDate)
            /\ UNCHANGED <<error, rejectedReads>>
       ELSE /\ Len(rejectedReads) < MaxReadFailures
            /\ rejectedReads' = Append(rejectedReads,
                                  [key |-> f.key, seen |-> navCount])
            /\ error' = TRUE
            /\ UNCHANGED sessionsByDate
    /\ cachedMonths' = cachedMonths \cup {f.key}
    /\ fetches' = fetches \ {f}
    /\ isLoading' = IF f.nav # 0 /\ ~\E g \in fetches' : g.nav = f.nav
                    THEN FALSE ELSE isLoading
    /\ UNCHANGED <<tz, store, screenSessions, initialLoad, nextId,
                   visibleMonth, selectedDate, navCount, dialog,
                   createPc, writes, createLog, fx>>

\* fetchMonth after its await.  When the promise of loadSessions resolves:
\* group, merge, mark the month fetched, and render.  When it rejects: the catch block
\* sets the error and nothing else.  The effect's Promise.all settles with
\* the last of its three calls either way, since fetchMonth never rejects.
FetchComplete(f, outcome) ==
    /\ f \in fetches
    /\ IF outcome = "resolved"
       THEN /\ sessionsByDate' = Rendered(Merge(sessionsByDate,
                                            Group(f.result)), selectedDate)
            /\ cachedMonths' = cachedMonths \cup {f.key}
            /\ UNCHANGED <<error, rejectedReads>>
       ELSE /\ Len(rejectedReads) < MaxReadFailures
            /\ rejectedReads' = Append(rejectedReads,
                                  [key |-> f.key, seen |-> navCount])
            /\ error' = TRUE
            /\ UNCHANGED <<sessionsByDate, cachedMonths>>
    /\ fetches' = fetches \ {f}
    /\ isLoading' = IF f.nav # 0 /\ ~\E g \in fetches' : g.nav = f.nav
                    THEN FALSE ELSE isLoading
    /\ UNCHANGED <<tz, store, screenSessions, initialLoad, nextId,
                   visibleMonth, selectedDate, navCount, dialog,
                   createPc, writes, createLog, fx>>

-----------------------------------------------------------------------------
(* CalendarScreen: initial load, edit and delete *)

\* AsyncStorage.getItem(SESSIONS_KEY).then(stored => stored && setSessions)
InitialLoadDone ==
    /\ initialLoad = "pending"
    /\ initialLoad' = "done"
    /\ screenSessions' = IF store # <<>> THEN store ELSE screenSessions
    /\ UNCHANGED <<tz, rejectedReads, store, nextId, visibleMonth, selectedDate,
                   sessionsByDate, cachedMonths, isLoading, error, fetches,
                   navCount, dialog, createPc, writes, createLog, fx>>

\* a session moved to another day, keeping its time of day
Rescheduled(s, day) ==
    LET by == DaysFromCivil(day[1], day[2], day[3])
              - DaysFromCivil(s.date[1], s.date[2], s.date[3])
    IN [s EXCEPT !.date = day,
                 !.startISO = toUTCISO(AddDays(toLocal(s.startISO), by)),
                 !.endISO = toUTCISO(AddDays(toLocal(s.endISO), by))]

\* the screen's write: state first, then the store, which can fail
ScreenWrite(updatedSessions, writeOk) ==
    /\ UiFree
    /\ writes < MaxWrites
    /\ writes' = writes + 1
    /\ screenSessions' = updatedSessions
    /\ store' = IF writeOk THEN updatedSessions ELSE store
    /\ UNCHANGED <<tz, rejectedReads, initialLoad, nextId, visibleMonth, selectedDate,
                   sessionsByDate, cachedMonths, isLoading, error, fetches,
                   navCount, dialog, createPc, createLog, fx>>

\* handleEditSession of the screen, called with a stored session moved to
\* another day; the calendar component does nothing of its own on an edit
EditSession(s, day, writeOk) ==
    /\ s \in Range(store)
    /\ day # s.date
    /\ ScreenWrite(onEditSession(screenSessions, Rescheduled(s, day)),
                   writeOk)

\* handleDeleteSession of the screen; the calendar component does nothing
\* of its own on a delete
DeleteSession(s, writeOk) ==
    /\ s \in Range(store)
    /\ ScreenWrite(onDeleteSession(screenSessions, s.id), writeOk)

-----------------------------------------------------------------------------
(* The calendar screen with its calendar *)

Forms == [clientId : ClientIds, timePair : TimePairs,
          repeatWeekly : BOOLEAN, repeatWeeks : RepeatWeeks]

\* a session an earlier run of the app left in the store
EarlierSession(day) ==
    [id |-> 0] @@
    BaseSession(Closure([clientId |-> "c1", timePair |-> <<540, 600>>,
                         repeatWeekly |-> FALSE, repeatWeeks |-> 1],
                        day, <<>>, <<>>, <<>>))

Init ==
    /\ tz \in TzOffsets
    /\ store \in {<<>>, <<EarlierSession(<<2024, 1, 31>>)>>}
    /\ screenSessions = <<>>
    /\ initialLoad = "pending"
    /\ nextId = 1
    /\ \E initialDate \in InitialDates :
          /\ visibleMonth =
                [year |-> GetFullYear(NewDateFromKey(initialDate)),
                 month |-> GetMonth1(NewDateFromKey(initialDate))]
          /\ selectedDate = initialDate
    /\ sessionsByDate = <<>>
    /\ cachedMonths = {}
    /\ isLoading = FALSE
    /\ error = FALSE
    /\ rejectedReads = <<>>
    /\ fetches = {}
    /\ navCount = 0
    /\ dialog = NoDialog
    /\ createPc = Idle
    /\ writes = 0
    /\ createLog = <<>>
    /\ fx = <<>>

Next ==
    \/ \E readOk \in ReadsSucceed : Mount(readOk)
    \/ \E by \in {-1, 1}, readOk \in ReadsSucceed :
          handleMonthChange(by, readOk)
    \/ \E day \in Days : handleDayPress(day)
    \/ \E f \in fetches : FetchComplete(f, "resolved")
    \/ InitialLoadDone
    \/ \E form \in Forms, writeOk \in WriteOutcomes :
          handleCreateSession(form, writeOk)
    \/ \E writeOk \in WriteOutcomes : PastContinue(writeOk)
    \/ \E writeOk \in WriteOutcomes : ConflictOverride(writeOk)
    \/ DialogDismiss
    \/ CreateRefresh
    \/ \E s \in Range(store), day \in Days, writeOk \in WriteOutcomes :
          EditSession(s, day, writeOk)
    \/ \E s \in Range(store), writeOk \in WriteOutcomes :
          DeleteSession(s, writeOk)

Spec == Init /\ [][Next]_vars

\* the calendar with a repository whose reads can fail: navigation, day
\* selection, fetch completion with either outcome, and the screen's writes
NextFetch ==
    \/ \E readOk \in ReadsSucceed : Mount(readOk)
    \/ \E by \in {-1, 1}, readOk \in ReadsSucceed :
          handleMonthChange(by, readOk)
    \/ \E day \in Days : handleDayPress(day)
    \/ \E f \in fetches, outcome \in ReadOutcomes :
          FetchComplete(f, outcome)
    \/ InitialLoadDone
    \/ \E s \in Range(store), day \in Days, writeOk \in WriteOutcomes :
          EditSession(s, day, writeOk)
    \/ \E s \in Range(store), writeOk \in WriteOutcomes :
          DeleteSession(s, writeOk)

SpecFetch == Init /\ [][NextFetch]_vars

-----------------------------------------------------------------------------
(* Properties of session creation *)

StartOf(s) == toLocal(s.startISO)
EndOf(s) == toLocal(s.endISO)

\* the sessions of a bucket that collide with the interval [from, to)
Colliding(bucket, from, to) ==
    {s \in Range(bucket) : from < EndOf(s) /\ StartOf(s) < to}

\* the bucket of the day a closure's candidate session is filed under
TargetBucket(cl) == Bucket(cl.byDate, cl.date)

\* the month key a date key belongs to
MonthKeyOfDate(k) == <<k[1], k[2]>>

\* C1: a create whose candidate interval overlaps a session in the bucket of
\* its day does not reach the repository unless the user chose Override; the
\* conflict alert reports exactly the colliding sessions; closing the alert
\* without Override changes neither the store nor the cache.
C1_NoCreateOnConflict ==
    /\ \A i \in DOMAIN createLog :
          LET e == createLog[i]
          IN e.override
             \/ Colliding(e.bucket, e.cl.startDate, e.cl.endDate) = {}
    /\ dialog.kind = "conflict" =>
          /\ Range(dialog.conflicts) =
                Colliding(TargetBucket(dialog.cl), dialog.cl.startDate,
                          dialog.cl.endDate)
          /\ Len(dialog.conflicts) = Cardinality(Range(dialog.conflicts))

ValidationMessages ==
    {"Please select a client or add clients first",
     "End time must be after start time"}

\* C3 (state part): every session handed to the repository, and every
\* session in the store, has a client and starts before it ends
C3_OnlyValidReachRepository ==
    /\ \A i \in DOMAIN createLog : \A j \in DOMAIN createLog[i].data :
          LET s == createLog[i].data[j]
          IN s.clientId # "" /\ StartOf(s) < EndOf(s)
    /\ \A s \in Range(store) : s.clientId # "" /\ StartOf(s) < EndOf(s)

\* C3 (step part): the step that rejects a request calls no repository
\* operation, issues no fetch and leaves cache and markers alone
C3_RejectionDoesNothing ==
    (dialog.kind = "none" /\ dialog'.kind = "error"
     /\ dialog'.message \in ValidationMessages)
    => UNCHANGED <<store, screenSessions, writes, createLog, fetches,
                   sessionsByDate, cachedMonths, createPc>>

\* C3: a request with start >= end or without a client is rejected before
\* any I/O, so only sessions with start < end reach the repository.
C3_ValidationBeforeIO ==
    [](C3_OnlyValidReachRepository) /\ [][C3_RejectionDoesNothing]_vars

\* a request was rejected for its times while the cache held sessions
C3_Rejected ==
    /\ dialog.kind = "error"
    /\ dialog.message = "End time must be after start time"
    /\ sessionsByDate # <<>>

\* C5: a weekly repeat of n weeks hands the repository the base session
\* together with the n expanded instances.
C5_BatchHasBaseAndInstances ==
    \A i \in DOMAIN createLog :
        LET e == createLog[i]
        IN (e.cl.repeatWeekly /\ e.cl.repeatWeeks >= 1) =>
              /\ Len(e.data) = e.cl.repeatWeeks + 1
              /\ BaseSession(e.cl) \in Range(e.data)

\* C6: the date key of every created session is the local calendar date of
\* its start instant.
C6_DateKeyIsLocalDateOfStart ==
    \A i \in DOMAIN createLog : \A j \in DOMAIN createLog[i].data :
        LET s == createLog[i].data[j]
        IN s.date = CivilFromDays(LocalDay(StartOf(s)))

\* C4: when createSessions has finished after a successful write, every
\* month holding a created session is no longer marked fetched, or a fetch
\* of that month has been issued after the write.
C4_CreatedMonthsInvalidated ==
    [][(createPc.pc = "written" /\ createPc'.pc = "idle") =>
          \A j \in DOMAIN createLog[Len(createLog)].data :
              LET k == MonthKeyOfDate(createLog[Len(createLog)].data[j].date)
              IN k \notin cachedMonths'
                 \/ \E f \in fetches' \ fetches : f.key = k]_vars

\* the date key a number of days after a date key
DaysAfter(k, n) == CivilFromDays(DaysFromCivil(k[1], k[2], k[3]) + n)

\* the local time of day of an instant, in minutes
TimeOfDay(t) == (t + tz) % MinutesPerDay

\* C18: the expansion of a weekly repeat of n weeks has n sessions; the
\* i-th has the date key 7 * i days after the base date, the base's start
\* and end time of day, recurring set, and the base's other fields.
C18_WeeklyExpansion ==
    \A e \in Range(createLog) :
        (e.cl.repeatWeekly /\ e.cl.repeatWeeks >= 1) =>
           /\ Len(e.data) = e.cl.repeatWeeks
           /\ \A i \in DOMAIN e.data :
                 /\ e.data[i].date = DaysAfter(e.cl.date, 7 * i)
                 /\ TimeOfDay(StartOf(e.data[i])) = e.cl.startTime
                 /\ TimeOfDay(EndOf(e.data[i])) = e.cl.endTime
                 /\ e.data[i].recurring
                 /\ e.data[i].clientId = e.cl.clientId
                 /\ e.data[i].status = "booked"

\* C12: when the repository's create fails, the failure is reported (the
\* alert "Failed to create session"), no bucket changes, no month marker is
\* cleared, no fetch is issued and the error state is not entered.
C12_FailedCreateKeepsCache ==
    [][(Len(createLog') > Len(createLog)
        /\ ~createLog'[Len(createLog')].ok) =>
          /\ dialog' = [kind |-> "error",
                        message |-> "Failed to create session"]
          /\ sessionsByDate' = sessionsByDate
          /\ cachedMonths' = cachedMonths
          /\ fetches' = fetches
          /\ createPc' = Idle
          /\ error' = error /\ ~error']_vars

\* a create failed at the repository while the cache held sessions of a
\* fetched month
C12_CreateFailed ==
    /\ createLog # <<>>
    /\ ~createLog[Len(createLog)].ok
    /\ sessionsByDate # <<>>
    /\ cachedMonths # {}

-----------------------------------------------------------------------------
(* Properties of the month cache under the calendar's operations *)

\* C13: selecting a month whose key is marked fetched issues no loadSessions
\* call for that month and changes no bucket.
C13_CacheHitIssuesNoFetch ==
    [][(navCount' = navCount + 1
        /\ MonthKey(visibleMonth'.year, visibleMonth'.month) \in cachedMonths)
       => /\ \A f \in fetches' \ fetches :
                f.key # MonthKey(visibleMonth'.year, visibleMonth'.month)
          /\ sessionsByDate' = sessionsByDate
          /\ cachedMonths' = cachedMonths]_vars

\* the user has moved to a prefetched month: its key is marked, the only
\* call in flight is the prefetch of the month after it
C13_MovedToFetchedMonth ==
    /\ navCount = 2
    /\ visibleMonth = [year |-> 2024, month |-> 2]
    /\ cachedMonths = {<<2024, 0>>, <<2024, 1>>, <<2024, 2>>}
    /\ \A f \in fetches : f.key = <<2024, 3>> /\ f.nav = 2
    /\ fetches # {}
    /\ sessionsByDate # <<>>

\* the range a query asks for
RangeOf(f) == [startISO |-> f.startISO, endISO |-> f.endISO]

\* the keys the effect looks up for a visible month
EffectKeys(vm) ==
    {MonthKey(vm.year, vm.month), MonthKey(vm.year, vm.month - 1),
     MonthKey(vm.year, vm.month + 1)}

\* C14: when none of its months is marked fetched, selecting a month issues
\* exactly three range queries: the month itself with two weeks of padding,
\* and the calendar months before and after it without padding.
C14_ColdSelectIssuesThreeQueries ==
    [][(navCount' = navCount + 1
        /\ EffectKeys(visibleMonth') \cap cachedMonths = {})
       => LET issued == fetches' \ fetches
              before == Shifted(visibleMonth', -1)
              after == Shifted(visibleMonth', 1)
          IN /\ Cardinality(issued) = 3
             /\ {RangeOf(f) : f \in issued} =
                   {getMonthRange(visibleMonth'.year, visibleMonth'.month, 2),
                    getMonthRange(before.year, before.month, 0),
                    getMonthRange(after.year, after.month, 0)}
             /\ Cardinality({RangeOf(f) : f \in issued}) = 3]_vars

\* the three queries of a cold start are in flight
C14_ThreeQueriesInFlight ==
    /\ navCount = 1
    /\ cachedMonths = {}
    /\ Cardinality(fetches) = 3

\* C7: when two fetches are in flight, the cache is the same whichever of
\* the two completes last.
C7_CompletionOrderIrrelevant ==
    \A f1 \in fetches : \A f2 \in fetches :
        Merge(Merge(sessionsByDate, Group(f1.result)), Group(f2.result))
        = Merge(Merge(sessionsByDate, Group(f2.result)), Group(f1.result))

IdsOf(bucket) == {bucket[i].id : i \in DOMAIN bucket}

\* C10: no session id occurs in two buckets of the cache, and every session
\* of a bucket carries the bucket's date key.
C10_OneBucketPerSession ==
    /\ \A k1 \in DOMAIN sessionsByDate : \A k2 \in DOMAIN sessionsByDate :
          k1 # k2 => IdsOf(sessionsByDate[k1]) \cap IdsOf(sessionsByDate[k2])
                     = {}
    /\ \A k \in DOMAIN sessionsByDate :
          \A i \in DOMAIN sessionsByDate[k] : sessionsByDate[k][i].date = k

\* the buckets of the cache that hold a session with the given id
BucketsHolding(byDate, id) == {k \in DOMAIN byDate : id \in IdsOf(byDate[k])}

\* C16: a delete that the repository carried out leaves the session in no
\* bucket of the cache and its month no longer marked fetched, so that the
\* day's sessions are one fewer and none has that id.
C16_DeleteLeavesCache ==
    [][\A s \in Range(store) :
          (DeleteSession(s, TRUE) /\ BucketsHolding(sessionsByDate, s.id) # {})
          => /\ BucketsHolding(sessionsByDate', s.id) = {}
             /\ Len(Bucket(sessionsByDate', s.date))
                   = Len(Bucket(sessionsByDate, s.date)) - 1
             /\ MonthKeyOfDate(s.date) \notin cachedMonths']_vars

\* C17: an edit that moves a cached session to another date takes it out
\* of the old date's bucket, puts the updated session into the new date's
\* bucket, and leaves neither the old nor the new month marked fetched.
C17_EditRelocatesInCache ==
    [][\A s \in Range(store) : \A day \in Days :
          (EditSession(s, day, TRUE)
           /\ s.id \in IdsOf(Bucket(sessionsByDate, s.date)))
          => /\ s.id \notin IdsOf(Bucket(sessionsByDate', s.date))
             /\ Rescheduled(s, day) \in Range(Bucket(sessionsByDate', day))
             /\ MonthKeyOfDate(s.date) \notin cachedMonths'
             /\ MonthKeyOfDate(day) \notin cachedMonths']_vars

-----------------------------------------------------------------------------
(* Properties of fetching with a repository whose reads can fail *)

\* C11: a fetch whose repository read fails sets the error, leaves every
\* bucket of the cache as it was and marks no month fetched.
C11_FailedFetchKeepsCache ==
    [][rejectedReads' # rejectedReads =>
          /\ error'
          /\ sessionsByDate' = sessionsByDate
          /\ cachedMonths' = cachedMonths]_vars

\* a read has failed while the cache held sessions, and its month is not
\* marked fetched
C11_FailedWithCache ==
    /\ rejectedReads # <<>>
    /\ error
    /\ sessionsByDate # <<>>
    /\ rejectedReads[1].key \notin cachedMonths

\* the month keys whose read has failed
FailedKeys == {rejectedReads[i].key : i \in DOMAIN rejectedReads}

\* C15 (retry part): moving to a month whose read failed and that is not
\* marked fetched issues its fetch again and shows the loading state
C15_RetryReissuesFetch ==
    [][(navCount' = navCount + 1
        /\ MonthKey(visibleMonth'.year, visibleMonth'.month)
              \in FailedKeys \ cachedMonths)
       => /\ isLoading'
          /\ \E f \in fetches' \ fetches :
                f.key = MonthKey(visibleMonth'.year, visibleMonth'.month)]_vars

\* C15: when a fetch that was issued after the read of its month had failed
\* succeeds and no fetch is left in flight, the controller is ready: not
\* loading and no longer in the error state.
C15_ReadyAfterSuccessfulRetry ==
    [][(\E f \in fetches :
           /\ \E i \in DOMAIN rejectedReads :
                 rejectedReads[i].key = f.key /\ rejectedReads[i].seen < f.nav
           /\ rejectedReads' = rejectedReads
           /\ fetches' = fetches \ {f}
           /\ f.key \in cachedMonths'
           /\ fetches' = {})
       => ~isLoading' /\ ~error']_vars

-----------------------------------------------------------------------------
(* The cache merge and the conflict check on drawn inputs *)

\* the session the create form builds for a day and a time pair
FormSession(id, day, pair) ==
    [id |-> id] @@
    BaseSession(Closure([clientId |-> "c1", timePair |-> pair,
                         repeatWeekly |-> FALSE, repeatWeeks |-> 1],
                        day, <<>>, <<>>, <<>>))

DrawnPairs == {<<540, 600>>, <<570, 630>>, <<600, 660>>}

\* lists of up to MaxBucket sessions with distinct ids, built from the form
\* for the given time pairs
DrawnLists(pairs) ==
    LET drawn == {FormSession(id, day, pair) :
                     id \in 1..MaxBucket, day \in Days, pair \in pairs}
    IN UNION {{l \in [1..n -> drawn] :
                  \A i \in 1..n : \A j \in 1..n : i # j => l[i].id # l[j].id} :
              n \in 0..MaxBucket}

\* the calendar at rest, for the specifications that only apply a function
AtRest ==
    /\ store = <<>>
    /\ screenSessions = <<>>
    /\ initialLoad = "done"
    /\ nextId = 1
    /\ visibleMonth = [year |-> 2024, month |-> 1]
    /\ selectedDate = <<2024, 1, 25>>
    /\ cachedMonths = {}
    /\ isLoading = FALSE
    /\ error = FALSE
    /\ rejectedReads = <<>>
    /\ fetches = {}
    /\ navCount = 1
    /\ dialog = NoDialog
    /\ createPc = Idle
    /\ writes = 0
    /\ createLog = <<>>

restVars == <<tz, rejectedReads, store, screenSessions, initialLoad, nextId, visibleMonth,
              selectedDate, cachedMonths, isLoading, error, fetches,
              navCount, dialog, createPc, writes, createLog>>

InitMerge ==
    /\ AtRest
    /\ tz = 0
    /\ \E prev \in DrawnLists({<<540, 600>>, <<600, 660>>}),
          incoming \in DrawnLists({<<540, 600>>, <<600, 660>>}) :
          /\ sessionsByDate = Group(prev)
          /\ fx = [prev |-> Group(prev), grouped |-> Group(incoming),
                   n |-> 0, once |-> <<>>]

\* setSessionsByDate((prev) => ({ ...prev, ...grouped })) applied to the
\* drawn group, up to twice
MergeStep ==
    /\ fx.n < 2
    /\ sessionsByDate' = Merge(sessionsByDate, fx.grouped)
    /\ fx' = [fx EXCEPT !.n = @ + 1,
                        !.once = IF fx.n = 0 THEN sessionsByDate' ELSE @]
    /\ UNCHANGED restVars

SpecMerge == InitMerge /\ [][MergeStep]_vars

\* C8: after a merge, a cached session whose id is not in the incoming group
\* of its date key is still in its bucket, and every incoming session is in
\* its bucket exactly once, with the incoming value.
C8_MergeKeepsOtherIds ==
    fx.n = 1 =>
      /\ \A k \in DOMAIN fx.prev : \A i \in DOMAIN fx.prev[k] :
            fx.prev[k][i].id \notin IdsOf(Bucket(fx.grouped, k))
            => fx.prev[k][i] \in Range(Bucket(sessionsByDate, k))
      /\ \A k \in DOMAIN fx.grouped : \A i \in DOMAIN fx.grouped[k] :
            LET b == Bucket(sessionsByDate, k)
            IN Cardinality({j \in DOMAIN b : b[j].id = fx.grouped[k][i].id})
               = 1
               /\ fx.grouped[k][i] \in Range(b)

\* C9: merging the same group a second time changes nothing.
C9_MergeIdempotent ==
    fx.n = 2 => sessionsByDate = fx.once

\* a group merged twice into a cache that held other sessions on its day
C9_MergedTwice ==
    /\ fx.n = 2
    /\ \E k \in DOMAIN fx.prev \cap DOMAIN fx.grouped :
          fx.prev[k] # fx.grouped[k]

DrawnCandidates == DrawnPairs \cup {<<600, 540>>}

InitConflicts ==
    /\ AtRest
    /\ tz \in TzOffsets
    /\ \E cached \in DrawnLists(DrawnPairs) : sessionsByDate = Group(cached)
    /\ \E day \in Days, pair \in DrawnCandidates, excludeId \in {NoId, 1} :
          fx = [startDate |-> SetHours(NewDateFromKey(day), pair[1]),
                endDate |-> SetHours(NewDateFromKey(day), pair[2]),
                excludeId |-> excludeId, done |-> FALSE, conflicts |-> <<>>]

\* checkConflicts applied to the drawn candidate
ConflictsStep ==
    /\ ~fx.done
    /\ fx' = [fx EXCEPT !.done = TRUE,
                        !.conflicts = checkConflicts(sessionsByDate,
                                          fx.startDate, fx.endDate,
                                          fx.excludeId)]
    /\ UNCHANGED <<restVars, sessionsByDate>>

SpecConflicts == InitConflicts /\ [][ConflictsStep]_vars

\* the positions of the candidate's day bucket that collide with it
CollidingAt(bucket, from, to, excludeId) ==
    {i \in DOMAIN bucket :
        /\ bucket[i].id # excludeId
        /\ from < EndOf(bucket[i])
        /\ StartOf(bucket[i]) < to}

\* C2: the conflict check returns every session of the day bucket that has
\* another id than excludeId and overlaps the candidate, and nothing else.
C2_ExactlyTheOverlapping ==
    fx.done =>
      LET bucket == Bucket(sessionsByDate, dateKey(fx.startDate))
          hits == CollidingAt(bucket, fx.startDate, fx.endDate, fx.excludeId)
      IN /\ Range(fx.conflicts) = {bucket[i] : i \in hits}
         /\ Len(fx.conflicts) = Cardinality(hits)

\* a check that found more than one conflict
C2_SeveralConflicts ==
    fx.done /\ Len(fx.conflicts) = 2

-----------------------------------------------------------------------------
(* The repository's range query on drawn inputs *)

\* stored sessions of either status and either client, on the explored days
DrawnStored ==
    LET drawn == {[FormSession(id, day, <<540, 600>>) EXCEPT
                      !.status = status, !.clientId = clientId] :
                     id \in 1..MaxBucket, day \in Days,
                     status \in {"booked", "cancelled"},
                     clientId \in {"c1", "c2"}}
    IN UNION {{l \in [1..n -> drawn] :
                  \A i \in 1..n : \A j \in 1..n : i # j => l[i].id # l[j].id} :
              n \in 0..MaxBucket}

\* the filters explored: no, one or two statuses, with or without a client
DrawnFilters ==
    [status : SUBSET {"booked", "cancelled"}, clientId : {"", "c1"}]

\* the ranges explored: from the first explored start to the last, the same
\* range one minute narrower at each end, and the unpadded month
DrawnRanges ==
    LET first == SetHours(NewDateFromKey(<<2024, 1, 25>>), 540)
        last == SetHours(NewDateFromKey(<<2024, 1, 31>>), 540)
    IN {[startISO |-> toUTCISO(first), endISO |-> toUTCISO(last)],
        [startISO |-> toUTCISO(first + 1), endISO |-> toUTCISO(last - 1)],
        getMonthRange(2024, 1, 0)}

InitLoad ==
    /\ AtRest
    /\ tz \in TzOffsets
    /\ sessionsByDate = <<>>
    /\ \E stored \in DrawnStored, range \in DrawnRanges,
          filters \in DrawnFilters :
          fx = [stored |-> stored, range |-> range, filters |-> filters,
                done |-> FALSE, result |-> <<>>]

\* loadSessions applied to the drawn store, range and filters
LoadStep ==
    /\ ~fx.done
    /\ fx' = [fx EXCEPT !.done = TRUE,
                        !.result = loadSessions(fx.stored, fx.range.startISO,
                                                fx.range.endISO, fx.filters,
                                                TRUE)]
    /\ UNCHANGED <<restVars, sessionsByDate>>

SpecLoad == InitLoad /\ [][LoadStep]_vars

\* C19: loadSessions returns, in stored order, exactly the stored sessions
\* that start within the range, both ends included, and that satisfy every
\* filter given: the status set and the client id together.
C19_RangeAndAllFilters ==
    fx.done =>
      LET Wanted(session) ==
              /\ toLocal(fx.range.startISO) <= StartOf(session)
              /\ StartOf(session) <= toLocal(fx.range.endISO)
              /\ fx.filters.status # {} =>
                    session.status \in fx.filters.status
              /\ fx.filters.clientId # "" =>
                    session.clientId = fx.filters.clientId
      IN fx.result = SelectSeq(fx.stored, Wanted)

\* C19 (one filter at most): the same with no filter or a single filter
C19_RangeAndOneFilter ==
    (fx.done /\ (fx.filters.status = {} \/ fx.filters.clientId = "")) =>
        C19_RangeAndAllFilters

-----------------------------------------------------------------------------
(* Day selection on drawn caches *)

\* a calendar showing a drawn cache; fx keeps the cache as it was drawn
InitSelect ==
    /\ AtRest
    /\ tz \in TzOffsets
    /\ \E cached \in DrawnLists(DrawnPairs) :
          /\ sessionsByDate = Rendered(Group(cached), selectedDate)
          /\ fx = [drawn |-> Group(cached)]

SelectStep == \E day \in Days : handleDayPress(day)

SpecSelect == InitSelect /\ [][SelectStep]_vars

\* the number of times a session occurs in a list
Occurrences(sessions, s) == Cardinality({i \in DOMAIN sessions : sessions[i] = s})

\* C20: selecting a day shows exactly the sessions of that day's bucket,
\* each as often as the bucket holds it, in ascending order of start, and
\* calls the repository neither for a read nor for a write.
C20_SelectDayShowsSortedBucket ==
    [][selectedDate' # selectedDate =>
          LET bucket == Bucket(sessionsByDate, selectedDate')
              shown == selectedSessions'
          IN /\ \A s \in Range(bucket) \cup Range(shown) :
                   Occurrences(shown, s) = Occurrences(bucket, s)
             /\ \A i \in DOMAIN shown : \A j \in DOMAIN shown :
                   i < j => StartOf(shown[i]) <= StartOf(shown[j])
             /\ fetches' = fetches
             /\ store' = store
             /\ writes' = writes]_vars

\* the selected day's bucket was drawn with a later session first, and is
\* shown in another order than it was drawn
C20_ShownReordered ==
    /\ selectedDate = <<2024, 1, 31>>
    /\ Len(selectedSessions) = 2
    /\ selectedSessions # Bucket(fx.drawn, selectedDate)

-----------------------------------------------------------------------------
(* The date library on drawn inputs *)

\* instants a range can start or end at
DrawnInstants == {600, 630, 660, 720}

\* Dates with seconds and milliseconds, in milliseconds since 2024-01-01:
\* hours 9 and 23 UTC of 1 and 2 January, around the rounding thresholds
DrawnDates ==
    {((day * 24 + hour) * 60 + minute) * MsPerMinute
        + second * MsPerSecond + milli :
        day \in {0, 1}, hour \in {9, 23},
        minute \in {0, 14, 15, 29, 30, 44, 45, 59},
        second \in {0, 59}, milli \in {0, 999}}

DrawnYears == {2023, 2024}
MaxPadding == 3

InitDate ==
    /\ AtRest
    /\ tz \in TzOffsets
    /\ sessionsByDate = <<>>
    /\ \/ \E start1 \in DrawnInstants, end1 \in DrawnInstants,
             start2 \in DrawnInstants, end2 \in DrawnInstants :
             fx = [fn |-> "dateRangesOverlap", done |-> FALSE,
                   start1 |-> start1, end1 |-> end1,
                   start2 |-> start2, end2 |-> end2, result |-> FALSE]
       \/ \E date \in DrawnDates :
             fx = [fn |-> "nearestHalfHour", done |-> FALSE,
                   date |-> date, result |-> 0]
       \/ \E year \in DrawnYears, month \in 1..12,
             weeksPadding \in 0..MaxPadding :
             fx = [fn |-> "getMonthRange", done |-> FALSE,
                   year |-> year, month |-> month,
                   weeksPadding |-> weeksPadding, result |-> <<>>]

OverlapStep ==
    /\ fx.fn = "dateRangesOverlap" /\ ~fx.done
    /\ fx' = [fx EXCEPT !.done = TRUE,
                        !.result = dateRangesOverlap(fx.start1, fx.end1,
                                                     fx.start2, fx.end2)]
    /\ UNCHANGED <<restVars, sessionsByDate>>

HalfHourStep ==
    /\ fx.fn = "nearestHalfHour" /\ ~fx.done
    /\ fx' = [fx EXCEPT !.done = TRUE, !.result = nearestHalfHour(fx.date)]
    /\ UNCHANGED <<restVars, sessionsByDate>>

MonthRangeStep ==
    /\ fx.fn = "getMonthRange" /\ ~fx.done
    /\ fx' = [fx EXCEPT !.done = TRUE,
                        !.result = getMonthRange(fx.year, fx.month,
                                                 fx.weeksPadding)]
    /\ UNCHANGED <<restVars, sessionsByDate>>

NextDate == OverlapStep \/ HalfHourStep \/ MonthRangeStep

SpecDate == InitDate /\ [][NextDate]_vars

\* C21: two ranges overlap exactly when each starts before the other ends;
\* for ranges that start before they end this is when some instant lies in
\* both half-open ranges, so ranges that only touch do not overlap.
C21_OverlapIsHalfOpen ==
    (fx.fn = "dateRangesOverlap" /\ fx.done) =>
       /\ fx.result = (fx.start1 < fx.end2 /\ fx.start2 < fx.end1)
       /\ (fx.start1 < fx.end1 /\ fx.start2 < fx.end2) =>
             (fx.result <=>
                \E t \in DrawnInstants :
                   /\ fx.start1 <= t /\ t < fx.end1
                   /\ fx.start2 <= t /\ t < fx.end2)
       /\ (fx.end1 = fx.start2 /\ fx.start1 < fx.end1
           /\ fx.start2 < fx.end2) => ~fx.result

\* two ranges that touch at an endpoint have been compared
C21_TouchingCompared ==
    /\ fx.fn = "dateRangesOverlap" /\ fx.done
    /\ fx.end1 = fx.start2
    /\ fx.start1 < fx.end1 /\ fx.start2 < fx.end2

\* the local time of a Date with milliseconds, and the start of its hour
HourStart(ms) == LocalMs(ms) - (LocalMs(ms) % MsPerHour)

\* C22: rounding to the half hour gives the start of the same local hour when
\* the minute is below 15, half past that hour for minutes 15 to 44, and the
\* start of the next hour (of the next day after 23:45) from minute 45 on;
\* seconds and milliseconds are zero and the minute is 0 or 30.
C22_NearestHalfHour ==
    (fx.fn = "nearestHalfHour" /\ fx.done) =>
       LET minute == (LocalMs(fx.date) \div MsPerMinute) % 60
           shift == IF minute < 15 THEN 0
                    ELSE IF minute <= 44 THEN 30 ELSE 60
       IN /\ LocalMs(fx.result) = HourStart(fx.date) + shift * MsPerMinute
          /\ GetSeconds(fx.result) = 0
          /\ GetMilliseconds(fx.result) = 0
          /\ GetMinutes(fx.result) \in {0, 30}
          /\ minute < 15 => GetHours(fx.result) = GetHours(fx.date)
          /\ (minute >= 45 /\ GetHours(fx.date) = 23) =>
                /\ GetHours(fx.result) = 0
                /\ LocalMs(fx.result) \div (24 * MsPerHour)
                     = LocalMs(fx.date) \div (24 * MsPerHour) + 1

\* a time after 23:45 with seconds and milliseconds has been rounded
C22_RolledIntoNextDay ==
    /\ fx.fn = "nearestHalfHour" /\ fx.done
    /\ GetHours(fx.date) = 23 /\ GetMinutes(fx.date) >= 45
    /\ GetSeconds(fx.date) # 0 /\ GetMilliseconds(fx.date) # 0
    /\ GetHours(fx.result) = 0

\* C23: the range of a month with a padding of n weeks starts at the local
\* midnight of the day 7 * n days before the first day of the month and ends
\* on the day 7 * n days after the last day of the month.
C23_MonthRangeDays ==
    (fx.fn = "getMonthRange" /\ fx.done) =>
       LET first == <<fx.year, fx.month, 1>>
           last == <<fx.year, fx.month, DaysInMonth(fx.year, fx.month)>>
           start == toLocal(fx.result.startISO)
           end == toLocal(fx.result.endISO)
       IN /\ dateKey(start) = DaysAfter(first, -(fx.weeksPadding * 7))
          /\ TimeOfDay(start) = 0
          /\ dateKey(end) = DaysAfter(last, fx.weeksPadding * 7)

\* the range of March 2024 with two weeks of padding has been computed: it
\* runs from 16 February to 14 April
C23_MarchWithTwoWeeks ==
    /\ fx.fn = "getMonthRange" /\ fx.done
    /\ fx.year = 2024 /\ fx.month = 3 /\ fx.weeksPadding = 2
    /\ dateKey(toLocal(fx.result.startISO)) = <<2024, 2, 16>>
    /\ dateKey(toLocal(fx.result.endISO)) = <<2024, 4, 14>>

-----------------------------------------------------------------------------
(* Fetches that arrive after a navigation *)

\* a session stored by an earlier run of the program
StoredOn(id, day) == [EarlierSession(day) EXCEPT !.id = id]

\* the store holds sessions on 25 January, 31 January and 29 February
InitStale ==
    /\ tz \in TzOffsets
    /\ store = <<StoredOn(0, <<2024, 1, 25>>), StoredOn(1, <<2024, 1, 31>>),
                 StoredOn(2, <<2024, 2, 29>>)>>
    /\ screenSessions = <<>>
    /\ initialLoad = "pending"
    /\ nextId = 3
    /\ \E initialDate \in InitialDates :
          /\ visibleMonth =
                [year |-> GetFullYear(NewDateFromKey(initialDate)),
                 month |-> GetMonth1(NewDateFromKey(initialDate))]
          /\ selectedDate = initialDate
    /\ sessionsByDate = <<>>
    /\ cachedMonths = {}
    /\ isLoading = FALSE
    /\ error = FALSE
    /\ rejectedReads = <<>>
    /\ fetches = {}
    /\ navCount = 0
    /\ dialog = NoDialog
    /\ createPc = Idle
    /\ writes = 0
    /\ createLog = <<>>
    /\ fx = <<>>

SpecStale == InitStale /\ [][NextFetch]_vars

\* C24: a fetch issued before the latest navigation that resolves afterwards
\* is merged and its month marked fetched; every bucket of a date key its
\* result does not contain is left as it was.
C24_StaleFetchMerged ==
    [][\A f \in fetches :
          (FetchComplete(f, "resolved") /\ f.nav < navCount) =>
             /\ f.key \in cachedMonths'
             /\ \A k \in DOMAIN Group(f.result) :
                   IdsOf(Bucket(sessionsByDate', k)) = IdsOf(Group(f.result)[k])
             /\ \A k \in DOMAIN sessionsByDate \ DOMAIN Group(f.result) :
                   Bucket(sessionsByDate', k) = sessionsByDate[k]]_vars

\* After the session of 31 January was moved to 25 January the user went to
\* February. The fetch of February, the only one whose range holds
\* 29 February, has filled that bucket, and it carried both sessions of
\* 25 January, as the fetch still in flight does. The bucket of 25 January
\* now holds one session again: the fetch issued at mount was merged later,
\* and the bucket of 29 February is as February's fetch left it.
C24_StaleAfterNewer ==
    /\ navCount = 2
    /\ MonthKey(2024, 1) \in cachedMonths
    /\ MonthKey(2024, 2) \in cachedMonths
    /\ \E g \in fetches :
          /\ g.nav = 2
          /\ IdsOf(Bucket(Group(g.result), <<2024, 1, 25>>)) = {0, 1}
    /\ IdsOf(Bucket(sessionsByDate, <<2024, 1, 25>>)) = {0}
    /\ IdsOf(Bucket(sessionsByDate, <<2024, 2, 29>>)) = {2}

\* C25: while nothing has been written, the bucket of every day of a month
\* marked fetched holds every stored session of that day, the last day of
\* the month and months fetched without padding included.
C25_FetchedMonthComplete ==
    writes = 0 =>
       \A key \in cachedMonths : \A s \in Range(store) :
          MonthKeyOfDate(s.date) = key =>
             s.id \in IdsOf(Bucket(sessionsByDate, s.date))

\* the month a fetch asks for: the month in the middle of its range
MonthAskedFor(f) ==
    LET mid == (toLocal(f.startISO) + toLocal(f.endISO)) \div 2
    IN [year |-> GetFullYear(mid), month |-> GetMonth1(mid)]

\* C26: a month is fetched under the key that is looked up when that month
\* is the visible one, also when it is the December before a January or the
\* January after a December.
C26_OneKeyPerMonth ==
    \A f \in fetches :
       f.key = MonthKey(MonthAskedFor(f).year, MonthAskedFor(f).month)

\* C27: the calendar shows no loading state only when the fetch of the
\* visible month issued by the latest navigation is no longer in flight;
\* fetches of an earlier navigation that settle do not end the loading
\* state of a later one.
C27_LoadingWhileVisibleMonthInFlight ==
    ~isLoading =>
       ~\E f \in fetches :
          /\ f.key = MonthKey(visibleMonth.year, visibleMonth.month)
          /\ f.nav = navCount

\* C28: whatever the order of the initial load and the writes, a write
\* removes from the store at most one session, the one it deletes.
C28_WritesKeepOtherSessions ==
    [][Cardinality(IdsOf(store) \ IdsOf(store')) <= 1]_vars

\* C29: when every create that reached the store was made without Override,
\* no two stored sessions of the same day overlap, whatever the state of the
\* month's fetch was when the create was checked.
C29_NoOverlapWithoutOverride ==
    (\A i \in DOMAIN createLog :
        createLog[i].ok /\ ~createLog[i].override) =>
       \A s \in Range(store), t \in Range(store) :
          (s.id # t.id /\ s.date = t.date) =>
             ~(StartOf(s) < EndOf(t) /\ StartOf(t) < EndOf(s))

-----------------------------------------------------------------------------
(* Navigation over a storage whose reads can fail *)

NextStorage ==
    \/ \E readOk \in StorageOutcomes : Mount(readOk)
    \/ \E by \in {-1, 1}, readOk \in StorageOutcomes :
          handleMonthChange(by, readOk)
    \/ \E day \in Days : handleDayPress(day)
    \/ \E f \in fetches : FetchComplete(f, "resolved")
    \/ InitialLoadDone

SpecStorage == Init /\ [][NextStorage]_vars

\* C30: when the storage read of a fetch has failed, the completion of the
\* fetch does not mark the month fetched and puts the calendar in its error
\* state.
C30_StorageFailureReported ==
    [][\A f \in fetches :
          (~f.readOk /\ \E outcome \in ReadOutcomes :
                           FetchComplete(f, outcome)) =>
             /\ f.key \notin cachedMonths'
             /\ error']_vars

====
